---- MODULE Spec2Model ----
(***************************************************************************)
(* Model of fatiando/gravmag/_tesseroid.pyx: the proximity classifier      *)
(* too_close and the adaptive refinement loop with_rediscretization        *)
(* (reached through gzz).                                                  *)
(*                                                                         *)
(* Arithmetic.  The source works in double precision on spherical          *)
(* coordinates.  The model works in exact integer arithmetic on a small    *)
(* equatorial patch: angles are measured as arc length on the reference    *)
(* sphere (MEAN_EARTH_RADIUS*d2r = 1 unit per degree), radii are measured  *)
(* from the reference sphere (the MEAN_EARTH_RADIUS offset cancels in      *)
(* every difference), sin(lat) = lat and cos(lat) = 1, so that the law of  *)
(* cosines of the source reduces to                                        *)
(*     distance^2 = (coslat*coslatt)*dlon^2 + dlat^2 + (radius - rt)^2.    *)
(* Midpoints are half-integers, so squared distances are carried times 4   *)
(* and the comparison  distance < ratio*extent  is made on the squares     *)
(* when the extent is positive (a distance is never below a non-positive   *)
(* product).  One unit of the grid is the resolution of the arithmetic: a  *)
(* midpoint that falls between two grid values is rounded to the even one, *)
(* as the double addition  w + dlon  does.                                 *)
(*                                                                         *)
(* A tesseroid or work item is the tuple <<w, e, s, n, top, bottom>> of    *)
(* the source (a row of the array `queue`).  Sequences are 1-based: point  *)
(* l of the source is index l + 1 here.                                    *)
(***************************************************************************)
EXTENDS Integers, Sequences, FiniteSets, Bags, TLC

(***************************************************************************)
(* Bounds of the model.                                                    *)
(***************************************************************************)
\* Capacity of the work list.  The source sets queue_max = 10000 (line 638);
\* the model explores the same guard and the same pushes at a small capacity.
queue_max == 11
\* ratio ranges over 1..MaxRatio
MaxRatio == 3
\* density ranges over 1..MaxDensity
MaxDensity == 2
\* slot m of the result array starts at r0*m, r0 in 1..MaxResult
MaxResult == 1
\* a call of gzz has 0..MaxPoints observation points
MaxPoints == 2
\* the index array handed to too_close has 0..MaxLen entries
MaxLen == 3
\* the any-order exploration follows a point while its cells (evaluated and
\* outstanding) number at most MaxCells
MaxCells == 10
\* the history of a point counts up to MaxCopies evaluations of the same cell
MaxCopies == 2

\* distance**2 < 1e-20 (line 75): on the integer grid a squared distance
\* (times 4) is below the epsilon exactly when it is below one unit.
Epsilon4 == 1

\* tesseroids <<w, e, s, n, top, bottom>>: a cube and two elongated cells
Tesseroids ==
    { <<0, 4, 0, 4, 4, 0>>,
      <<0, 2, 0, 8, 8, 0>>,
      <<0, 8, 0, 4, 2, 0>> }

\* bounds a caller can pass although they bound no volume: west > east,
\* south = north, top < bottom
InvalidTesseroids ==
    { <<4, 0, 0, 4, 4, 0>>,
      <<0, 4, 2, 2, 4, 0>>,
      <<0, 4, 0, 4, 0, 4>> }

\* a cell one grid unit wide on every axis: what the refinement of a point
\* on the top face of a tesseroid comes down to when the halving reaches the
\* resolution of the arithmetic
UnitTesseroids ==
    { <<1, 2, 1, 2, 4, 3>> }

\* observation points <<lon, sinlat, coslat, radius>>: far above the cells,
\* just above the cube, inside the second cell, and on the centre of the top
\* face of the cube
ObsTable ==
    << <<2, 2, 1, 12>>, <<2, 1, 1, 5>>, <<1, 5, 1, 4>>, <<2, 2, 1, 4>> >>

PointSet == { ObsTable[m] : m \in 1..Len(ObsTable) }

VARIABLES
    tesseroid,   \* the six bounds (bounds = tesseroid.get_bounds())
    density,
    ratio,
    lons, sinlats, coslats, radii,   \* observation arrays
    result,      \* the caller's result array
    l,           \* index of the current observation point (1-based)
    res,         \* accumulator of the current point
    queue,       \* the work list; Len(queue) is queue_size
    pc,          \* "outer" | "loop" | "returned" | "overflow" | "crashed" | "idle"
    oob,         \* a row at index >= queue_max has been written
    evaluated,   \* history: bag of the cells the kernel was applied to for point l
    writes,      \* history: number of writes to each result slot
    result0,     \* history: the result array at the call
    obs0,        \* history: the observation arrays at the call
    points,      \* too_close: the index array (0-based indices)
    i, j,        \* too_close: the two pointers (0-based positions)
    tpc,         \* too_close: "while" | "returned" | "raised" | "idle"
    points0      \* history: the index array at the call

inputs == << tesseroid, density, ratio, lons, sinlats, coslats, radii >>

\* the state of with_rediscretization
avars == << result, l, res, queue, pc, oob, evaluated, writes, result0, obs0 >>

\* the state of too_close
tvars == << points, i, j, tpc, points0 >>

vars == << inputs, avars, tvars >>

(***************************************************************************)
(* Geometry                                                                *)
(***************************************************************************)
Sq(x) == x * x

Max2(a, b) == IF a >= b THEN a ELSE b

Abs(x) == IF x >= 0 THEN x ELSE 0 - x

\* distance_n_size: 4*distance^2 to the centre of the top face, and the
\* three extents of the cell.  The great-circle formula of dlon (an atan2 of a
\* square root) gives the unsigned arc; dlat and dr are signed differences.
distance_n_size(c, lon, sinlat, coslat, radius) ==
    LET w == c[1]  e == c[2]  s == c[3]  n == c[4]  top == c[5]  bottom == c[6]
        rt == top
        lont2 == w + e          \* 2*lont
        latt2 == s + n          \* 2*latt
        coslatt == 1
    IN  [ distance4 |-> coslat * coslatt * Sq(2 * lon - lont2)
                          + Sq(2 * sinlat - latt2)
                          + Sq(2 * (radius - rt)),
          dlon |-> Abs(e - w),
          dlat |-> n - s,
          dr   |-> top - bottom ]

\* a comparison that also flags the axis on equality
TooNearOrEqual(distance4, rat, extent) ==
    extent >= 0 /\ distance4 <= Sq(2 * rat * extent)

\* distance < ratio*extent, on the squares
TooNear(distance4, rat, extent) ==
    extent > 0 /\ distance4 < Sq(2 * rat * extent)

\* nlon, nlat, nr of the branching step (lines 666-674)
divisions(c, rat, lon, sinlat, coslat, radius) ==
    LET d == distance_n_size(c, lon, sinlat, coslat, radius)
    IN  [ nlon |-> IF TooNear(d.distance4, rat, d.dlon) THEN 2 ELSE 1,
          nlat |-> IF TooNear(d.distance4, rat, d.dlat) THEN 2 ELSE 1,
          nr   |-> IF TooNear(d.distance4, rat, d.dr)   THEN 2 ELSE 1 ]

\* the grid value of a number given as twice its value: exact when it is on
\* the grid, else the even one of its two neighbours (round half to even)
RoundHalf(x2) ==
    IF x2 % 2 = 0 THEN x2 \div 2
    ELSE IF ((x2 - 1) \div 2) % 2 = 0 THEN (x2 - 1) \div 2 ELSE (x2 + 1) \div 2

\* lo + m*((hi - lo)/nn) for m in 0..nn, nn in {1, 2}: the ends are exact, the
\* midpoint is rounded to the grid
Bound(lo, hi, nn, m) ==
    IF m = 0 THEN lo
    ELSE IF m = nn THEN hi
    ELSE RoundHalf(lo + hi)

\* the rows pushed by the triple loop of lines 687-696, in push order
children(c, nlon, nlat, nr) ==
    LET w == c[1]  e == c[2]  s == c[3]  n == c[4]  top == c[5]  bottom == c[6]
        child(m) ==
            LET ii == m \div (nlat * nr)
                jj == (m \div nr) % nlat
                kk == m % nr
            IN  << Bound(w, e, nlon, ii), Bound(w, e, nlon, ii + 1),
                   Bound(s, n, nlat, jj), Bound(s, n, nlat, jj + 1),
                   Bound(bottom, top, nr, kk + 1), Bound(bottom, top, nr, kk) >>
    IN  [ m \in 1..(nlon * nlat * nr) |-> child(m - 1) ]

\* every divided extent of the cell is cut on the grid: no midpoint is rounded
Halvable(c, nlon, nlat, nr) ==
    /\ (c[2] - c[1]) % nlon = 0
    /\ (c[4] - c[3]) % nlat = 0
    /\ (c[5] - c[6]) % nr = 0

(***************************************************************************)
(* Quadrature nodes and the gzz kernel                                     *)
(***************************************************************************)
\* scale_nodes: the two nodes per axis and the scale.  Node coordinates are
\* carried times 4 with the abscissas -1/2, +1/2 standing for the
\* irrational -1/sqrt(3), +1/sqrt(3); the scale is carried times 8.
scale_nodes(c) ==
    LET w == c[1]  e == c[2]  s == c[3]  n == c[4]  top == c[5]  bottom == c[6]
        dlon == e - w
        dlat == n - s
        dr == top - bottom
        mlon2 == e + w
        mlat2 == n + s
        mr2 == top + bottom
        nodes == << -1, 1 >>
    IN  [ lonc    |-> [ ii \in 1..2 |-> dlon * nodes[ii] + 2 * mlon2 ],
          sinlatc |-> [ ii \in 1..2 |-> dlat * nodes[ii] + 2 * mlat2 ],
          coslatc |-> [ ii \in 1..2 |-> 1 ],
          rc      |-> [ ii \in 1..2 |-> dr * nodes[ii] + 2 * mr2 ],
          scale   |-> dlon * dlat * dr ]

\* kernelzz: the sum over the 2x2x2 nodes of scale*kappa*(3*deltaz^2 - l_sqr).
\* The division by l_sqr**2.5 has no integer counterpart and is left out; kappa
\* (rc^2*coslatc, dominated by the squared reference radius) is the unit.
kernelzz(lon, sinlat, coslat, radius, scale, lonc, sinlatc, coslatc, rc) ==
    LET term(ii, jj, kk) ==
            LET l_sqr  == coslat * coslatc[jj] * Sq(4 * lon - lonc[ii])
                            + Sq(4 * sinlat - sinlatc[jj])
                            + Sq(4 * radius - rc[kk])
                deltaz == rc[kk] - 4 * radius
                kappa  == 1
            IN  scale * kappa * (3 * Sq(deltaz) - l_sqr)
        sumk(ii, jj) == term(ii, jj, 1) + term(ii, jj, 2)
        sumj(ii) == sumk(ii, 1) + sumk(ii, 2)
    IN  sumj(1) + sumj(2)

\* a kernel call that drops the scale of the cell
cell_kernel_unit_scale(c, lon, sinlat, coslat, radius) ==
    LET q == scale_nodes(c)
    IN  kernelzz(lon, sinlat, coslat, radius, 1, q.lonc, q.sinlatc,
                 q.coslatc, q.rc)

\* lines 677-680: the value added to res for a cell that is not divided
cell_kernel(c, lon, sinlat, coslat, radius) ==
    LET q == scale_nodes(c)
    IN  kernelzz(lon, sinlat, coslat, radius, q.scale, q.lonc, q.sinlatc,
                 q.coslatc, q.rc)

(***************************************************************************)
(* with_rediscretization                                                   *)
(***************************************************************************)
size == Len(result)

\* a pop that always drops the last row, whichever row was read
WithoutLast(q, k) == [ m \in 1..(Len(q) - 1) |-> q[m] ]

\* the queue without the row at position k
Without(q, k) == [ m \in 1..(Len(q) - 1) |-> IF m < k THEN q[m] ELSE q[m + 1] ]

\* the row popped by lines 656-662: the last one
PopIndex(q) == Len(q)

\* the guard of line 682, on the size after the pop
overflow_check(queue_size, nlon, nlat, nr) ==
    queue_size + nlon + nlat + nr > queue_max

\* a store instead of an accumulation
commit_overwrite(old, dens, acc) == dens * acc

\* line 697
commit(old, dens, acc) == old + dens * acc

\* for l in range(size): lines 647-654
StartPoint ==
    /\ pc = "outer"
    /\ l <= size
    /\ res' = 0
    /\ queue' = << tesseroid >>
    /\ evaluated' = EmptyBag
    /\ pc' = "loop"
    /\ UNCHANGED << tvars, inputs, result, l, oob, writes, result0, obs0 >>

\* one iteration of the while loop that takes row k and evaluates it
\* (lines 656-680)
Evaluate(k) ==
    /\ pc = "loop"
    /\ k \in 1..Len(queue)
    /\ LET c == queue[k]
           d == divisions(c, ratio, lons[l], sinlats[l], coslats[l], radii[l])
       IN  /\ d.nlon = 1 /\ d.nlat = 1 /\ d.nr = 1
           /\ res' = res + cell_kernel(c, lons[l], sinlats[l], coslats[l],
                                       radii[l])
           /\ queue' = Without(queue, k)
           /\ evaluated' = IF CopiesIn(c, evaluated) < MaxCopies
                            THEN evaluated (+) SetToBag({c})
                            ELSE evaluated
    /\ UNCHANGED << tvars, inputs, result, l, pc, oob, writes, result0, obs0 >>

\* one iteration that takes row k and replaces it by its children
\* (lines 656-675, 681-696)
Split(k) ==
    /\ pc = "loop"
    /\ k \in 1..Len(queue)
    /\ LET c == queue[k]
           d == divisions(c, ratio, lons[l], sinlats[l], coslats[l], radii[l])
           rest == Without(queue, k)
       IN  /\ ~(d.nlon = 1 /\ d.nlat = 1 /\ d.nr = 1)
           /\ ~overflow_check(Len(rest), d.nlon, d.nlat, d.nr)
           /\ queue' = rest \o children(c, d.nlon, d.nlat, d.nr)
           /\ oob' = (oob \/ Len(queue') > queue_max)
    /\ UNCHANGED << tvars, inputs, result, l, res, pc, evaluated, writes, result0,
                    obs0 >>

\* a raise that first flushes the accumulator into the result slot
OverflowFlush(k) ==
    /\ pc = "loop"
    /\ k \in 1..Len(queue)
    /\ LET c == queue[k]
           d == divisions(c, ratio, lons[l], sinlats[l], coslats[l], radii[l])
           rest == Without(queue, k)
       IN  /\ ~(d.nlon = 1 /\ d.nlat = 1 /\ d.nr = 1)
           /\ overflow_check(Len(rest), d.nlon, d.nlat, d.nr)
           /\ queue' = rest
    /\ pc' = "overflow"
    /\ result' = [ result EXCEPT ![l] = commit(result[l], density, res) ]
    /\ UNCHANGED << tvars, inputs, l, res, oob, evaluated, writes, result0,
                    obs0 >>

\* one iteration that takes row k and raises 'Tesseroid queue overflow'
\* (lines 656-675, 681-683)
Overflow(k) ==
    /\ pc = "loop"
    /\ k \in 1..Len(queue)
    /\ LET c == queue[k]
           d == divisions(c, ratio, lons[l], sinlats[l], coslats[l], radii[l])
           rest == Without(queue, k)
       IN  /\ ~(d.nlon = 1 /\ d.nlat = 1 /\ d.nr = 1)
           /\ overflow_check(Len(rest), d.nlon, d.nlat, d.nr)
           /\ queue' = rest
    /\ pc' = "overflow"
    /\ UNCHANGED << tvars, inputs, result, l, res, oob, evaluated, writes, result0,
                    obs0 >>

\* the while loop ends; result[l] += density*res (line 697)
CommitPoint ==
    /\ pc = "loop"
    /\ queue = << >>
    /\ result' = [ result EXCEPT ![l] = commit(result[l], density, res) ]
    /\ writes' = [ writes EXCEPT ![l] = writes[l] + 1 ]
    /\ l' = l + 1
    /\ pc' = "outer"
    /\ UNCHANGED << tvars, inputs, res, queue, oob, evaluated, result0, obs0 >>

\* return 0 (line 698)
Return ==
    /\ pc = "outer"
    /\ l > size
    /\ pc' = "returned"
    /\ UNCHANGED << tvars, inputs, result, l, res, queue, oob, evaluated, writes,
                    result0, obs0 >>

\* boundscheck is off (line 612): a row written at index >= queue_max lands
\* outside the array.  The process either goes on with the rows as written
\* or dies.
Crash ==
    /\ oob
    /\ pc \in {"loop", "outer"}
    /\ pc' = "crashed"
    /\ UNCHANGED << tvars, inputs, result, l, res, queue, oob, evaluated, writes,
                    result0, obs0 >>

(***************************************************************************)
(* too_close                                                               *)
(***************************************************************************)
\* lines 64-66: the largest of the three dimensions
tc_size(t) == Max2(Max2(t[2] - t[1], t[4] - t[3]), t[5] - t[6])

\* line 68, times 4
tc_value4(t, rat) == Sq(2 * tc_size(t) * rat)

\* lines 73-74: the squared distance of point p (0-based) to the centre of
\* the top face, times 4
tc_distance4(t, p) ==
    LET rt == t[5]
        lont2 == t[1] + t[2]
        latt2 == t[3] + t[4]
        coslatt == 1
    IN  coslats[p + 1] * coslatt * Sq(2 * lons[p + 1] - lont2)
          + Sq(2 * sinlats[p + 1] - latt2)
          + Sq(2 * (radii[p + 1] - rt))

\* a loop that stops one entry early
tc_loop_test_strict(lo, hi) == lo < hi

\* line 71
tc_loop_test(lo, hi) == lo <= hi

\* line 75
tc_degenerate(distance4) == distance4 < Epsilon4

\* line 77
tc_far(distance4, value4) == distance4 > value4

\* a swap that forgets the second store
tc_swap_half(pts, lo, hi) == [ pts EXCEPT ![lo + 1] = pts[hi + 1] ]

\* lines 80-81: points[i] = points[j]; points[j] = p
tc_swap(pts, lo, hi) ==
    [ pts EXCEPT ![lo + 1] = pts[hi + 1], ![hi + 1] = pts[lo + 1] ]

\* lines 72-76: the point under the first pointer is on the centre
TcRaise ==
    /\ tpc = "while"
    /\ tc_loop_test(i, j)
    /\ tc_degenerate(tc_distance4(tesseroid, points[i + 1]))
    /\ tpc' = "raised"
    /\ UNCHANGED << inputs, avars, points, i, j, points0 >>

\* lines 72-78: the point is far enough and stays in the prefix
TcFar ==
    /\ tpc = "while"
    /\ tc_loop_test(i, j)
    /\ ~tc_degenerate(tc_distance4(tesseroid, points[i + 1]))
    /\ tc_far(tc_distance4(tesseroid, points[i + 1]),
              tc_value4(tesseroid, ratio))
    /\ i' = i + 1
    /\ UNCHANGED << inputs, avars, points, j, tpc, points0 >>

\* lines 72-82: the point goes to the end of the unclassified range
TcClose ==
    /\ tpc = "while"
    /\ tc_loop_test(i, j)
    /\ ~tc_degenerate(tc_distance4(tesseroid, points[i + 1]))
    /\ ~tc_far(tc_distance4(tesseroid, points[i + 1]),
               tc_value4(tesseroid, ratio))
    /\ points' = tc_swap(points, i, j)
    /\ j' = j - 1
    /\ UNCHANGED << inputs, avars, i, tpc, points0 >>

\* line 83: return i
TcReturn ==
    /\ tpc = "while"
    /\ ~tc_loop_test(i, j)
    /\ tpc' = "returned"
    /\ UNCHANGED << inputs, avars, points, i, j, points0 >>

\* the step on row k rounds no midpoint
Exact(k) ==
    LET c == queue[k]
        d == divisions(c, ratio, lons[l], sinlats[l], coslats[l], radii[l])
    IN  Halvable(c, d.nlon, d.nlat, d.nr)

\* a call of gzz on a tesseroid of T
InitGzz(T) ==
    /\ tesseroid \in T
    /\ density \in 1..MaxDensity
    /\ ratio \in 1..MaxRatio
    /\ \E np \in 0..MaxPoints :
         /\ \E pts \in [ 1..np -> PointSet ] :
              /\ lons = [ m \in 1..np |-> pts[m][1] ]
              /\ sinlats = [ m \in 1..np |-> pts[m][2] ]
              /\ coslats = [ m \in 1..np |-> pts[m][3] ]
              /\ radii = [ m \in 1..np |-> pts[m][4] ]
         /\ \E r0 \in 1..MaxResult : result = [ m \in 1..np |-> r0 * m ]
    /\ l = 1
    /\ res = 0
    /\ queue = << >>
    /\ pc = "outer"
    /\ oob = FALSE
    /\ evaluated = EmptyBag
    /\ writes = [ m \in 1..Len(result) |-> 0 ]
    /\ result0 = result
    /\ obs0 = << lons, sinlats, coslats, radii >>
    /\ points = << >> /\ i = 0 /\ j = 0 /\ tpc = "idle" /\ points0 = << >>

\* a call of gzz
Init == InitGzz(Tesseroids)

\* the loop as long as every midpoint is on the grid
Next ==
    \/ StartPoint
    \/ Evaluate(PopIndex(queue))
    \/ (Split(PopIndex(queue)) /\ Exact(PopIndex(queue)))
    \/ Overflow(PopIndex(queue))
    \/ CommitPoint
    \/ Return
    \/ Crash

Spec == Init /\ [][Next]_vars

\* the loop at the resolution of the arithmetic: a midpoint between two grid
\* values is rounded.  The loop is sequential code that never waits: as long
\* as a step is possible, one is taken.
NextRound ==
    \/ StartPoint
    \/ Evaluate(PopIndex(queue))
    \/ Split(PopIndex(queue))
    \/ Overflow(PopIndex(queue))
    \/ CommitPoint
    \/ Return
    \/ Crash

InitRound == InitGzz(Tesseroids \cup UnitTesseroids)

SpecRound == InitRound /\ [][NextRound]_vars /\ WF_vars(NextRound)

\* the same loop taking the outstanding rows in any order, for one
\* observation point; MaxCells < queue_max keeps every row inside the array
InitAny ==
    /\ Init
    /\ Len(result) = 1
    /\ density = 1

NextAny ==
    \/ StartPoint
    \/ \E k \in 1..Len(queue) : Evaluate(k)
    \/ \E k \in 1..Len(queue) :
          /\ Split(k)
          /\ Exact(k)
          /\ BagCardinality(evaluated) + Len(queue') <= MaxCells
    \/ \E k \in 1..Len(queue) : Overflow(k)
    \/ CommitPoint
    \/ Return

SpecAny == InitAny /\ [][NextAny]_vars

\* a call of too_close on the observation table, on a tesseroid of T
InitTooClose(T) ==
    /\ tesseroid \in T
    /\ density = 1
    /\ ratio \in 1..MaxRatio
    /\ lons = [ m \in 1..Len(ObsTable) |-> ObsTable[m][1] ]
    /\ sinlats = [ m \in 1..Len(ObsTable) |-> ObsTable[m][2] ]
    /\ coslats = [ m \in 1..Len(ObsTable) |-> ObsTable[m][3] ]
    /\ radii = [ m \in 1..Len(ObsTable) |-> ObsTable[m][4] ]
    /\ \E len \in 0..MaxLen : points \in [ 1..len -> 0..(Len(ObsTable) - 1) ]
    /\ i = 0
    /\ j = Len(points) - 1
    /\ tpc = "while"
    /\ points0 = points
    /\ result = << >> /\ l = 1 /\ res = 0 /\ queue = << >> /\ pc = "idle"
    /\ oob = FALSE /\ evaluated = EmptyBag /\ writes = << >>
    /\ result0 = << >> /\ obs0 = << lons, sinlats, coslats, radii >>

\* a call of too_close
InitTC == InitTooClose(Tesseroids)

NextTC ==
    \/ TcRaise
    \/ TcFar
    \/ TcClose
    \/ TcReturn

SpecTC == InitTC /\ [][NextTC]_vars

\* a call of gzz or of too_close on any bounds the caller passes
InitBounds ==
    \/ InitGzz(Tesseroids \cup InvalidTesseroids)
    \/ InitTooClose(Tesseroids \cup InvalidTesseroids)

NextBounds ==
    \/ Next
    \/ NextTC

SpecBounds == InitBounds /\ [][NextBounds]_vars

(***************************************************************************)
(* Claims about too_close (checked under SpecTC)                           *)
(***************************************************************************)
\* number of positions of the array that hold index v
Count(pts, v) == Cardinality({ m \in 1..Len(pts) : pts[m] = v })

\* C2: when too_close returns i, every index of points[:i] has squared
\* distance >= threshold and every index of points[i:] has squared distance
\* < threshold (a point exactly on the threshold is in the far prefix).
C2_PartitionByThreshold ==
    tpc = "returned" =>
        \A m \in 1..Len(points) :
            LET d4 == tc_distance4(tesseroid, points[m])
                v4 == tc_value4(tesseroid, ratio)
            IN  /\ (m <= i => d4 >= v4)
                /\ (m > i => d4 < v4)

\* C3: too_close only permutes the index array: the same multiset of indices
\* before and after, and the returned boundary lies in 0..len(points), the two
\* pointers having met.
C3_Permutation ==
    /\ Len(points) = Len(points0)
    /\ \A v \in 0..(Len(ObsTable) - 1) : Count(points, v) = Count(points0, v)
    /\ (tpc = "returned" => (0 <= i /\ i <= Len(points) /\ i = j + 1))

\* C3 witness: a call returned after swaps that changed the order, with a
\* non-empty prefix and a non-empty suffix.
C3_Witness ==
    /\ tpc = "returned"
    /\ points # points0
    /\ 0 < i /\ i < Len(points)

\* C4: too_close returns a boundary only if no listed index has squared
\* distance below the epsilon, wherever the index sits in the array; a raise
\* is caused by such an index.
C4_DegenerateAlwaysRaises ==
    /\ (tpc = "returned" =>
            \A m \in 1..Len(points0) :
                tc_distance4(tesseroid, points0[m]) >= Epsilon4)
    /\ (tpc = "raised" =>
            \E m \in 1..Len(points0) :
                tc_distance4(tesseroid, points0[m]) < Epsilon4)

\* C4 witness: the call raised on an index that a swap had moved to the
\* front from the end of the array.
C4_Witness ==
    /\ tpc = "raised"
    /\ i > 0
    /\ points[i + 1] # points0[i + 1]
    /\ points0[Len(points0)] = points[i + 1]

(***************************************************************************)
(* Claim about the bounds passed to the entry points (checked under        *)
(* SpecBounds)                                                             *)
(***************************************************************************)
\* west < east, south < north and top > bottom
ValidBounds(t) == t[1] < t[2] /\ t[3] < t[4] /\ t[5] > t[6]

\* C11: a call with west >= east, south >= north or top <= bottom reads no
\* point, evaluates no kernel, writes no result slot and returns no value:
\* gzz does not enter its loop over the points or return normally, too_close
\* does not move a pointer or return a boundary.
C11_InvalidBoundsRejected ==
    ~ValidBounds(tesseroid) =>
        /\ pc \in {"outer", "idle"}
        /\ pc = "outer" => (l = 1 /\ result = result0 /\ evaluated = EmptyBag)
        /\ tpc \in {"while", "idle"}
        /\ tpc = "while" => (i = 0 /\ points = points0)

(***************************************************************************)
(* Claims about with_rediscretization (checked under Spec, C9 under        *)
(* SpecAny)                                                                *)
(***************************************************************************)
\* the flags of a cell for observation point m, from the comparison itself
Flagged(c, m, extent) ==
    distance_n_size(c, lons[m], sinlats[m], coslats[m], radii[m]).distance4
        < 4 * ratio * ratio * extent * extent

FlagLon(c, m) == Flagged(c, m, c[2] - c[1])
FlagLat(c, m) == Flagged(c, m, c[4] - c[3])
FlagR(c, m) == Flagged(c, m, c[5] - c[6])

NoFlag(c, m) == ~FlagLon(c, m) /\ ~FlagLat(c, m) /\ ~FlagR(c, m)

\* the leaf cells of the refinement of cell c for point m, by recursion on
\* the split rule alone
RECURSIVE LeafBag(_, _), LeafBagSeq(_, _, _)
LeafBag(c, m) ==
    LET d == divisions(c, ratio, lons[m], sinlats[m], coslats[m], radii[m])
    IN  IF d.nlon = 1 /\ d.nlat = 1 /\ d.nr = 1
        THEN SetToBag({c})
        ELSE LeafBagSeq(children(c, d.nlon, d.nlat, d.nr), 1, m)
LeafBagSeq(cs, n, m) ==
    IF n > Len(cs) THEN EmptyBag
    ELSE LeafBag(cs[n], m) (+) LeafBagSeq(cs, n + 1, m)

\* the sum of the kernel values of the cells of bag B (over its support S)
RECURSIVE BagKernelSum(_, _, _)
BagKernelSum(B, S, m) ==
    IF S = {} THEN 0
    ELSE LET c == CHOOSE x \in S : TRUE
         IN  CopiesIn(c, B)
               * cell_kernel(c, lons[m], sinlats[m], coslats[m], radii[m])
             + BagKernelSum(B, S \ {c}, m)

KernelSum(B, m) == BagKernelSum(B, BagToSet(B), m)

\* C12: the loop of every observation point stops: from a state inside the
\* while loop the call reaches the end of the loop (the commit of the point)
\* or the overflow error, unless the work list has left its capacity.
C12_LoopStops ==
    (pc = "loop") ~> (pc \in {"outer", "returned", "overflow"} \/ oob)

\* C1: the number of outstanding work items never exceeds queue_max and no
\* row is written at an index >= queue_max.
C1_QueueWithinCapacity ==
    /\ Len(queue) <= queue_max
    /\ ~oob

\* the two halves of [lo, hi] if the axis is flagged, else the whole interval
Parts(lo, hi, flag) ==
    IF flag
    THEN { << lo, x >> : x \in { y \in lo..hi : 2 * y = lo + hi } }
           \cup { << x, hi >> : x \in { y \in lo..hi : 2 * y = lo + hi } }
    ELSE { << lo, hi >> }

C6_Accumulate ==
    /\ << lons, sinlats, coslats, radii >> = obs0
    /\ pc # "idle" =>
         /\ \A m \in 1..Len(result) :
              /\ writes[m] = (IF m < l THEN 1 ELSE 0)
              /\ m >= l => result[m] = result0[m]
         /\ (pc \in {"outer", "returned"} /\ l > 1) =>
              /\ queue = << >>
              /\ result[l - 1] = result0[l - 1]
                                   + density * KernelSum(evaluated, l - 1)
              /\ \A m \in 1..(l - 1) :
                   result[m] = result0[m]
                     + density * KernelSum(LeafBag(tesseroid, m), m)

\* C6 witness: a call on two points returned, the first slot started from a
\* non-zero value and the last point needed a refinement.
C6_Witness ==
    /\ pc = "returned"
    /\ Len(result) = 2
    /\ result0[1] # 0
    /\ result[1] # result0[1]
    /\ BagCardinality(evaluated) > 1

\* C7: when the evaluation of point l raises the overflow error, result[l]
\* is its initial value and every other slot is its initial value or that
\* plus the point's complete contribution.
C7_NoPartialSum ==
    pc = "overflow" =>
        /\ result[l] = result0[l]
        /\ \A m \in 1..Len(result) :
             \/ result[m] = result0[m]
             \/ /\ m < l
                /\ result[m] = result0[m]
                     + density * KernelSum(LeafBag(tesseroid, m), m)

\* C7 witness: the second point raised the overflow error with a non-zero
\* accumulator, after the first point had been committed.
C7_Witness ==
    /\ pc = "overflow"
    /\ l = 2
    /\ res # 0
    /\ result[1] # result0[1]

\* C8: a point at which no axis of the original tesseroid is flagged gets
\* exactly one kernel evaluation, on the original bounds, and density times
\* that value is added to its slot.
C8_FarPointDirect ==
    (pc \in {"outer", "returned"} /\ l > 1 /\ NoFlag(tesseroid, l - 1)) =>
        LET m == l - 1
            q == scale_nodes(tesseroid)
        IN  /\ evaluated = SetToBag({tesseroid})
            /\ result[m] = result0[m]
                 + density * kernelzz(lons[m], sinlats[m], coslats[m],
                                      radii[m], q.scale, q.lonc, q.sinlatc,
                                      q.coslatc, q.rc)

\* C8 witness: a call returned whose last point flags no axis of the
\* original tesseroid and whose slot changed.
C8_Witness ==
    /\ pc = "returned"
    /\ l > 1
    /\ NoFlag(tesseroid, l - 1)
    /\ result[l - 1] # result0[l - 1]

\* C9: whatever the order in which outstanding rows are taken, a point
\* whose loop ends has had the kernel evaluated on the same multiset of leaf
\* cells, the one fixed by the split rule.
C9_OrderIndependent ==
    (pc \in {"outer", "returned"} /\ l > 1) =>
        evaluated = LeafBag(tesseroid, l - 1)

\* C9 witness: a loop that ended after splitting on two levels at least
\* (more leaves than one split can produce).
C9_Witness ==
    /\ pc = "returned"
    /\ l > 1
    /\ BagCardinality(evaluated) > 8

\* the volume of a cell on the patch
Volume(c) == (c[2] - c[1]) * (c[4] - c[3]) * (c[5] - c[6])

RECURSIVE SumVolume(_)
SumVolume(S) ==
    IF S = {} THEN 0
    ELSE LET c == CHOOSE x \in S : TRUE
         IN  Volume(c) + SumVolume(S \ {c})

\* cell c lies inside cell t
Within(c, t) ==
    /\ t[1] <= c[1] /\ c[2] <= t[2]
    /\ t[3] <= c[3] /\ c[4] <= t[4]
    /\ t[6] <= c[6] /\ c[5] <= t[5]

\* two cells share no volume: they are apart on one axis at least
Apart(a, b) ==
    \/ a[2] <= b[1] \/ b[2] <= a[1]
    \/ a[4] <= b[3] \/ b[4] <= a[3]
    \/ a[5] <= b[6] \/ b[5] <= a[6]

QueueCells == { queue[m] : m \in 1..Len(queue) }

\* C13: during the loop of a point and at its end, the outstanding rows and
\* the evaluated cells are all different cells (no row twice, no cell
\* evaluated twice, no evaluated cell outstanding), each with west < east,
\* south < north, top > bottom, inside the original bounds, pairwise without
\* common volume, and their volumes add up to the volume of the original
\* tesseroid; at the end the evaluated cells alone do.
C13_Tiling ==
    (ValidBounds(tesseroid)
       /\ (pc = "loop" \/ (pc \in {"outer", "returned"} /\ l > 1))) =>
        LET done == BagToSet(evaluated)
            cells == QueueCells \cup done
        IN  /\ Cardinality(QueueCells) = Len(queue)
            /\ \A c \in done : CopiesIn(c, evaluated) = 1
            /\ QueueCells \cap done = {}
            /\ \A c \in cells : ValidBounds(c) /\ Within(c, tesseroid)
            /\ \A a \in cells : \A b \in cells : (a # b => Apart(a, b))
            /\ SumVolume(cells) = Volume(tesseroid)
            /\ pc # "loop" => (queue = << >> /\ SumVolume(done) = Volume(tesseroid))

\* the number of children of cell c for point m, from the flags
ChildCount(c, m) ==
    (IF FlagLon(c, m) THEN 2 ELSE 1) * (IF FlagLat(c, m) THEN 2 ELSE 1)
        * (IF FlagR(c, m) THEN 2 ELSE 1)

\* C14: when the popped row is to be split and the rows left after the pop
\* plus its children fit in queue_max, the step raises no overflow error and
\* pushes the children.
C14_NoNeedlessOverflow ==
    [][ (pc = "loop" /\ queue # << >>
           /\ ~NoFlag(queue[Len(queue)], l)
           /\ Len(queue) - 1 + ChildCount(queue[Len(queue)], l) <= queue_max) =>
          /\ pc' # "overflow"
          /\ pc' = "loop" =>
                Len(queue') = Len(queue) - 1 + ChildCount(queue[Len(queue)], l)
      ]_vars

\* a point strictly inside the volume of the tesseroid
Inside(t, m) ==
    /\ t[1] < lons[m] /\ lons[m] < t[2]
    /\ t[3] < sinlats[m] /\ sinlats[m] < t[4]
    /\ t[6] < radii[m] /\ radii[m] < t[5]

\* C10: the evaluation of a point strictly inside the tesseroid with a
\* strict ratio (2 or more) never adds a value to the point's slot and never
\* ends otherwise than by a raised error.
C10_InsideEndsInError ==
    \A m \in 1..Len(result) :
        (Inside(tesseroid, m) /\ ratio >= 2) =>
            /\ writes[m] = 0
            /\ ~(l = m /\ pc = "crashed")

====
